---- MODULE Spec2Model ----
(***************************************************************************)
(* MatterServer (packages/matter.js/src/MatterServer.ts): the registry of  *)
(* nodes, the two registration methods, and the asynchronous start() and   *)
(* close() sequences.  Every call the server makes on a collaborator       *)
(* (storage manager, MDNS factories, the nodes) is appended to `calls`;    *)
(* every invocation of a public method is a record in `invs`.  An async    *)
(* method runs atomically from one await to the next.                      *)
(***************************************************************************)
EXTENDS Integers, Sequences, FiniteSets, TLC

\* Bounds of the model
MaxInvocations == 3
NumNodes == 4

\* The node objects a caller may hand in, and the option values
NodeIds == 1..NumNodes
Undefined == "<undefined>"
NoStorage == "<none>"
UniqueNodeIds == {"home"}
Interfaces == {Undefined, "eth0"}
Outcomes == {"ok", "createContextThrows", "setStorageThrows"}

\* node instanceof CommissioningServer / CommissioningController
KindOf(n) == IF n % 2 = 1 THEN "CommissioningServer" ELSE "CommissioningController"

\* node.delayedAnnouncement / node.delayedPairing
Deferred(n) == (n \div 2) % 2 = 1

\* node.getPort(): the servers 1 and 3 listen on the same port
getPort(n) == 5540 + (n \div 4)

VARIABLES nodes, storage, calls, invs, mdnsAnnounceInterface

vars == <<nodes, storage, calls, invs, mdnsAnnounceInterface>>

\* One call on a collaborator: the invocation that made it, the operation,
\* the node it is made on (0: storage manager or MDNS factory), the argument
\* and the result ("pending" while the returned promise is not settled).
Call(k, op, n, arg, res) == [inv |-> k, op |-> op, node |-> n, arg |-> arg, res |-> res]

\* One invocation of a public method
Inv(op, n, status, pc, idx) == [op |-> op, node |-> n, status |-> status, pc |-> pc, idx |-> idx]

Digit(d) == CASE d = 0 -> "0" [] d = 1 -> "1" [] d = 2 -> "2" [] d = 3 -> "3"
              [] d = 4 -> "4" [] d = 5 -> "5" [] d = 6 -> "6" [] d = 7 -> "7"
              [] d = 8 -> "8" [] d = 9 -> "9"

RECURSIVE toString(_)
\* Number.prototype.toString() of a non-negative integer
toString(n) == IF n < 10 THEN Digit(n) ELSE toString(n \div 10) \o Digit(n % 10)

\* if (this.nodes.length > 0) throw ...
CapacityExceededOffByOne(ns) == Len(ns) > 1
CapacityExceededAlways(ns) == Len(ns) >= 0
CapacityExceeded(ns) == Len(ns) > 0

RECURSIVE PortCheck(_, _, _, _, _)
\* The loop over the registered nodes that fills portCheckMap: the getPort
\* calls it makes, and whether it throws.  The port of the node being
\* registered is never looked at.
PortCheck(k, ns, i, seen, cs) ==
    IF i > Len(ns) THEN [calls |-> cs, conflict |-> FALSE]
    ELSE IF KindOf(ns[i]) = "CommissioningServer"
         THEN LET cs1 == Append(cs, Call(k, "getPort", ns[i], Undefined, "ok"))
              IN  IF getPort(ns[i]) \in seen
                  THEN [calls |-> cs1, conflict |-> TRUE]
                  ELSE PortCheck(k, ns, i + 1, seen \cup {getPort(ns[i])}, cs1)
         ELSE PortCheck(k, ns, i + 1, seen, cs)

\* nodeOptions?.uniqueNodeId ?? this.nodes.length.toString()
StorageIdIgnoringOption(opt, ns) == toString(Len(ns))
StorageId(opt, ns) == IF opt # Undefined THEN opt ELSE toString(Len(ns))

\* node.setStorage(ctx): the node keeps the context it is handed
setStorage(st, n, id) == [st EXCEPT ![n] = id]

\* this.nodes.push(node)
Push(ns, n) == Append(ns, n)

\* Register with the push moved in front of the storage assignment
RegisterPushFirst(k, op, n, opt, outcome, cs) ==
    LET id == StorageId(opt, nodes)
        created == Append(cs, Call(k, "createContext", 0, id,
                                   IF outcome = "createContextThrows" THEN "fail" ELSE "ok"))
        stored == Append(created, Call(k, "setStorage", n, id,
                                   IF outcome = "setStorageThrows" THEN "fail" ELSE "ok"))
    IN  /\ nodes' = Push(nodes, n)
        /\ calls' = IF outcome = "createContextThrows" THEN created ELSE stored
        /\ storage' = IF outcome = "ok" THEN setStorage(storage, n, id) ELSE storage
        /\ invs' = Append(invs, Inv(op, n, IF outcome = "ok" THEN "ok" ELSE "error", "done", 0))

\* Register that also advertises / connects the node it has just stored
RegisterAndAnnounce(k, op, n, opt, outcome, cs) ==
    LET id == StorageId(opt, nodes)
        created == Append(cs, Call(k, "createContext", 0, id,
                                   IF outcome = "createContextThrows" THEN "fail" ELSE "ok"))
        stored == Append(created, Call(k, "setStorage", n, id,
                                   IF outcome = "setStorageThrows" THEN "fail" ELSE "ok"))
    IN  /\ calls' = IF outcome = "createContextThrows" THEN created
                    ELSE IF outcome = "setStorageThrows" THEN stored
                    ELSE Append(stored, Call(k, IF op = "addCommissioningServer" THEN "advertise"
                                                ELSE "connect", n, Undefined, "ok"))
        /\ nodes' = IF outcome = "ok" THEN Push(nodes, n) ELSE nodes
        /\ storage' = IF outcome = "ok" THEN setStorage(storage, n, id) ELSE storage
        /\ invs' = Append(invs, Inv(op, n, IF outcome = "ok" THEN "ok" ELSE "error", "done", 0))

\* setStorage(createContext(id)); nodes.push(node): the statements after the
\* checks, common to both registration methods.  createContext or setStorage
\* may throw, which ends the method before the push.
Register(k, op, n, opt, outcome, cs) ==
    LET id == StorageId(opt, nodes)
        created == Append(cs, Call(k, "createContext", 0, id,
                                   IF outcome = "createContextThrows" THEN "fail" ELSE "ok"))
        stored == Append(created, Call(k, "setStorage", n, id,
                                   IF outcome = "setStorageThrows" THEN "fail" ELSE "ok"))
    IN  CASE outcome = "createContextThrows" ->
               /\ calls' = created
               /\ invs' = Append(invs, Inv(op, n, "error", "done", 0))
               /\ UNCHANGED <<nodes, storage>>
          [] outcome = "setStorageThrows" ->
               /\ calls' = stored
               /\ invs' = Append(invs, Inv(op, n, "error", "done", 0))
               /\ UNCHANGED <<nodes, storage>>
          [] outcome = "ok" ->
               /\ calls' = stored
               /\ storage' = setStorage(storage, n, id)
               /\ nodes' = Push(nodes, n)
               /\ invs' = Append(invs, Inv(op, n, "ok", "done", 0))

addCommissioningServer(n, opt, outcome) ==
    /\ Len(invs) < MaxInvocations
    /\ KindOf(n) = "CommissioningServer"
    /\ LET k == Len(invs) + 1
           check == PortCheck(k, nodes, 1, {}, calls)
       IN  IF CapacityExceeded(nodes)
           THEN /\ invs' = Append(invs, Inv("addCommissioningServer", n, "capacity", "done", 0))
                /\ UNCHANGED <<nodes, storage, calls>>
           ELSE IF check.conflict
           THEN /\ invs' = Append(invs, Inv("addCommissioningServer", n, "portConflict", "done", 0))
                /\ calls' = check.calls
                /\ UNCHANGED <<nodes, storage>>
           ELSE Register(k, "addCommissioningServer", n, opt, outcome, check.calls)
    /\ UNCHANGED mdnsAnnounceInterface

addCommissioningController(n, opt, outcome) ==
    /\ Len(invs) < MaxInvocations
    /\ KindOf(n) = "CommissioningController"
    /\ LET k == Len(invs) + 1
       IN  IF CapacityExceeded(nodes)
           THEN /\ invs' = Append(invs, Inv("addCommissioningController", n, "capacity", "done", 0))
                /\ UNCHANGED <<nodes, storage, calls>>
           ELSE Register(k, "addCommissioningController", n, opt, outcome, calls)
    /\ UNCHANGED mdnsAnnounceInterface

\* if (!node.delayedAnnouncement) / if (!node.delayedPairing)
RunsDefaultActionAlways(n) == TRUE
RunsDefaultAction(n) == ~Deferred(n)

\* StartIter creating the broadcaster without the announce interface
StartIterNoInterface(k, i, cs) ==
    IF i > Len(nodes)
    THEN [calls |-> cs, status |-> "ok", pc |-> "done", idx |-> i]
    ELSE IF KindOf(nodes[i]) = "CommissioningServer"
    THEN [calls |-> Append(cs, Call(k, "MdnsBroadcaster.create", 0, Undefined, "pending")),
          status |-> "pending", pc |-> "broadcaster", idx |-> i]
    ELSE [calls |-> Append(cs, Call(k, "MdnsScanner.create", 0, Undefined, "pending")),
          status |-> "pending", pc |-> "scanner", idx |-> i]

\* StartIter starting both constructions of a server at once
StartIterParallel(k, i, cs) ==
    IF i > Len(nodes)
    THEN [calls |-> cs, status |-> "ok", pc |-> "done", idx |-> i]
    ELSE IF KindOf(nodes[i]) = "CommissioningServer"
    THEN [calls |-> cs \o <<Call(k, "MdnsScanner.create", 0, Undefined, "pending"),
                             Call(k, "MdnsBroadcaster.create", 0, mdnsAnnounceInterface, "pending")>>,
          status |-> "pending", pc |-> "broadcaster", idx |-> i]
    ELSE [calls |-> Append(cs, Call(k, "MdnsScanner.create", 0, Undefined, "pending")),
          status |-> "pending", pc |-> "scanner", idx |-> i]

\* StartIter constructing a scanner even when there is no node to hand it to
StartIterEager(k, i, cs) ==
    IF i > Len(nodes)
    THEN [calls |-> IF i = 1 THEN Append(cs, Call(k, "MdnsScanner.create", 0, Undefined, "ok")) ELSE cs,
          status |-> "ok", pc |-> "done", idx |-> i]
    ELSE IF KindOf(nodes[i]) = "CommissioningServer"
    THEN [calls |-> Append(cs, Call(k, "MdnsBroadcaster.create", 0, mdnsAnnounceInterface, "pending")),
          status |-> "pending", pc |-> "broadcaster", idx |-> i]
    ELSE [calls |-> Append(cs, Call(k, "MdnsScanner.create", 0, Undefined, "pending")),
          status |-> "pending", pc |-> "scanner", idx |-> i]

\* start(): the head of the for loop at node i, up to its first await
StartIter(k, i, cs) ==
    IF i > Len(nodes)
    THEN [calls |-> cs, status |-> "ok", pc |-> "done", idx |-> i]
    ELSE IF KindOf(nodes[i]) = "CommissioningServer"
    THEN [calls |-> Append(cs, Call(k, "MdnsBroadcaster.create", 0, mdnsAnnounceInterface, "pending")),
          status |-> "pending", pc |-> "broadcaster", idx |-> i]
    ELSE [calls |-> Append(cs, Call(k, "MdnsScanner.create", 0, Undefined, "pending")),
          status |-> "pending", pc |-> "scanner", idx |-> i]

\* StartResume that does not await advertise() / connect()
StartResumeNoAwait(k, cs) ==
    LET i == invs[k].idx
        n == nodes[i]
    IN  CASE invs[k].pc = "broadcaster" ->
               [calls |-> cs \o <<Call(k, "setMdnsBroadcaster", n, Undefined, "ok"),
                                  Call(k, "MdnsScanner.create", 0, Undefined, "pending")>>,
                status |-> "pending", pc |-> "scanner", idx |-> i]
          [] invs[k].pc = "scanner" ->
               LET cs1 == Append(cs, Call(k, "setMdnsScanner", n, Undefined, "ok"))
                   cs2 == IF RunsDefaultAction(n)
                          THEN Append(cs1, Call(k, IF KindOf(n) = "CommissioningServer"
                                                   THEN "advertise" ELSE "connect",
                                                n, Undefined, "pending"))
                          ELSE cs1
               IN  StartIter(k, i + 1, cs2)
          [] invs[k].pc \in {"advertise", "connect"} -> StartIter(k, i + 1, cs)

\* start(): the code that runs when the awaited promise of invocation k
\* resolves, up to the next await or the end of the loop
StartResume(k, cs) ==
    LET i == invs[k].idx
        n == nodes[i]
    IN  CASE invs[k].pc = "broadcaster" ->
               [calls |-> cs \o <<Call(k, "setMdnsBroadcaster", n, Undefined, "ok"),
                                  Call(k, "MdnsScanner.create", 0, Undefined, "pending")>>,
                status |-> "pending", pc |-> "scanner", idx |-> i]
          [] invs[k].pc = "scanner" ->
               LET cs1 == Append(cs, Call(k, "setMdnsScanner", n, Undefined, "ok"))
               IN  IF RunsDefaultAction(n)
                   THEN IF KindOf(n) = "CommissioningServer"
                        THEN [calls |-> Append(cs1, Call(k, "advertise", n, Undefined, "pending")),
                              status |-> "pending", pc |-> "advertise", idx |-> i]
                        ELSE [calls |-> Append(cs1, Call(k, "connect", n, Undefined, "pending")),
                              status |-> "pending", pc |-> "connect", idx |-> i]
                   ELSE StartIter(k, i + 1, cs1)
          [] invs[k].pc \in {"advertise", "connect"} -> StartIter(k, i + 1, cs)

\* close() never touches this.nodes
NodesAfterCloseCleared(ns) == <<>>
NodesAfterClose(ns) == ns

\* CloseIter that closes a node only if no earlier close() closed it
CloseIterOnce(k, i, cs) ==
    IF i > Len(nodes) \/ \E c \in 1..Len(cs) : cs[c].op = "close" /\ cs[c].node = nodes[i]
                                                 /\ cs[c].inv # k
    THEN [calls |-> cs, status |-> "ok", pc |-> "done", idx |-> i]
    ELSE [calls |-> Append(cs, Call(k, "close", nodes[i], Undefined, "pending")),
          status |-> "pending", pc |-> "close", idx |-> i]

\* close(): the head of the for loop at node i, up to its await
CloseIter(k, i, cs) ==
    IF i > Len(nodes)
    THEN [calls |-> cs, status |-> "ok", pc |-> "done", idx |-> i]
    ELSE [calls |-> Append(cs, Call(k, "close", nodes[i], Undefined, "pending")),
          status |-> "pending", pc |-> "close", idx |-> i]

\* The call invocation k is suspended on: the last one it made
PendingCall(k) == CHOOSE c \in 1..Len(calls) : calls[c].inv = k /\ calls[c].res = "pending"

Init ==
    /\ nodes = <<>>
    /\ storage = [n \in NodeIds |-> NoStorage]
    /\ calls = <<>>
    /\ invs = <<>>
    /\ mdnsAnnounceInterface \in Interfaces

\* start() that refuses to run while another start() is in progress
startGuarded ==
    /\ Len(invs) < MaxInvocations
    /\ LET k == Len(invs) + 1
           r == StartIter(k, 1, calls)
           busy == \E j \in 1..Len(invs) : invs[j].op = "start" /\ invs[j].status = "pending"
       IN  /\ calls' = IF busy THEN calls ELSE r.calls
           /\ invs' = Append(invs, IF busy THEN Inv("start", 0, "error", "done", 0)
                                   ELSE Inv("start", 0, r.status, r.pc, r.idx))
    /\ UNCHANGED <<nodes, storage, mdnsAnnounceInterface>>

start ==
    /\ Len(invs) < MaxInvocations
    /\ LET k == Len(invs) + 1
           r == StartIter(k, 1, calls)
       IN  /\ calls' = r.calls
           /\ invs' = Append(invs, Inv("start", 0, r.status, r.pc, r.idx))
    /\ UNCHANGED <<nodes, storage, mdnsAnnounceInterface>>

close ==
    /\ Len(invs) < MaxInvocations
    /\ LET k == Len(invs) + 1
           r == CloseIter(k, 1, calls)
       IN  /\ calls' = r.calls
           /\ invs' = Append(invs, Inv("close", 0, r.status, r.pc, r.idx))
    /\ nodes' = NodesAfterClose(nodes)
    /\ UNCHANGED <<storage, mdnsAnnounceInterface>>

\* The promise invocation k awaits resolves
Resolve(k) ==
    /\ invs[k].status = "pending"
    /\ LET cs == [calls EXCEPT ![PendingCall(k)].res = "ok"]
           r == IF invs[k].op = "start" THEN StartResume(k, cs)
                ELSE CloseIter(k, invs[k].idx + 1, cs)
       IN  /\ calls' = r.calls
           /\ invs' = [invs EXCEPT ![k].status = r.status, ![k].pc = r.pc, ![k].idx = r.idx]
    /\ nodes' = IF invs[k].op = "close" THEN NodesAfterClose(nodes) ELSE nodes
    /\ UNCHANGED <<storage, mdnsAnnounceInterface>>

\* Reject with the error caught and the sequence carried on
RejectAndContinue(k) ==
    /\ invs[k].status = "pending"
    /\ LET cs == [calls EXCEPT ![PendingCall(k)].res = "fail"]
           r == IF invs[k].op = "start" THEN StartResume(k, cs)
                ELSE CloseIter(k, invs[k].idx + 1, cs)
       IN  /\ calls' = r.calls
           /\ invs' = [invs EXCEPT ![k].status = r.status, ![k].pc = r.pc, ![k].idx = r.idx]
    /\ UNCHANGED <<nodes, storage, mdnsAnnounceInterface>>

\* The promise invocation k awaits rejects: the await throws, nothing
\* catches it, and the promise of start() / close() rejects
Reject(k) ==
    /\ invs[k].status = "pending"
    /\ calls' = [calls EXCEPT ![PendingCall(k)].res = "fail"]
    /\ invs' = [invs EXCEPT ![k].status = "error", ![k].pc = "done"]
    /\ UNCHANGED <<nodes, storage, mdnsAnnounceInterface>>

Next ==
    \/ \E n \in NodeIds, opt \in UniqueNodeIds \cup {Undefined}, outcome \in Outcomes :
          addCommissioningServer(n, opt, outcome)
    \/ \E n \in NodeIds, opt \in UniqueNodeIds \cup {Undefined}, outcome \in Outcomes :
          addCommissioningController(n, opt, outcome)
    \/ start
    \/ close
    \/ \E k \in 1..Len(invs) : Resolve(k)
    \/ \E k \in 1..Len(invs) : Reject(k)

Spec == Init /\ [][Next]_vars

\* The promise invocation k awaits is settled, one way or the other
Settle(k) == k <= Len(invs) /\ (Resolve(k) \/ Reject(k))

\* The steps of Next in which createContext and setStorage do not throw and
\* no uniqueNodeId is given: a failed registration leaves the registry alone
\* and plays no part in how start() proceeds
LiveNext ==
    \/ \E n \in NodeIds : addCommissioningServer(n, Undefined, "ok")
    \/ \E n \in NodeIds : addCommissioningController(n, Undefined, "ok")
    \/ start
    \/ close
    \/ \E k \in 1..Len(invs) : Resolve(k)
    \/ \E k \in 1..Len(invs) : Reject(k)

\* The behaviours in which every promise the server awaits is eventually
\* settled by the collaborator that returned it
LiveSpec == Init /\ [][LiveNext]_vars /\ \A k \in 1..MaxInvocations : WF_vars(Settle(k))

----------------------------------------------------------------------------
(* Properties *)

Last(s) == s[Len(s)]
Opts == UniqueNodeIds \cup {Undefined}
IsAdd(i) == i.op \in {"addCommissioningServer", "addCommissioningController"}

\* This step is a call of a registration method
AddStep == Len(invs') = Len(invs) + 1 /\ IsAdd(Last(invs'))

\* The calls of operation op that invocation k made, in order
CallsBy(k, op) == SelectSeq(calls, LAMBDA c : c.inv = k /\ c.op = op)

\* All calls of operation op, in order
CallsOp(op) == SelectSeq(calls, LAMBDA c : c.op = op)

\* All calls of operation op on node n, in order
CallsOn(op, n) == SelectSeq(calls, LAMBDA c : c.op = op /\ c.node = n)

\* The createContext and setStorage calls made so far
StorageCalls == SelectSeq(calls, LAMBDA c : c.op \in {"createContext", "setStorage"})

\* Position of the first call of op on node n by invocation k (0: none)
FirstPos(k, op, n) ==
    LET ps == {c \in 1..Len(calls) : calls[c].inv = k /\ calls[c].op = op /\ calls[c].node = n}
    IN  IF ps = {} THEN 0 ELSE CHOOSE c \in ps : \A d \in ps : c <= d

\* C1: the registry never holds more than one node, and a registration
\* attempted while a node is registered fails with the capacity error and
\* changes neither the registry, nor any node's storage context, nor makes
\* any collaborator call (no createContext, no setStorage).
C1_SingleNodeCap ==
    [][ /\ Len(nodes) <= 1
        /\ Len(nodes') <= 1
        /\ (AddStep /\ nodes # <<>>)
              => /\ Last(invs').status = "capacity"
                 /\ nodes' = nodes
                 /\ storage' = storage
                 /\ calls' = calls ]_vars

\* A registration was rejected with the capacity error while a node is registered
C1_Witness ==
    \E k \in 1..Len(invs) : IsAdd(invs[k]) /\ invs[k].status = "capacity" /\ Len(nodes) = 1

\* C2: registering an Advertiser whose port equals the port of an Advertiser
\* registered before it is rejected with the port-conflict error, not with
\* the capacity error.
C2_PortConflictFirst ==
    \A j, k \in 1..Len(invs) :
        ( /\ j < k
          /\ invs[j].op = "addCommissioningServer" /\ invs[j].status = "ok"
          /\ invs[k].op = "addCommissioningServer"
          /\ invs[j].node # invs[k].node
          /\ getPort(invs[j].node) = getPort(invs[k].node) )
        => invs[k].status = "portConflict"

\* C3: a successful registration of either kind makes exactly one
\* createContext call, and its argument is the uniqueNodeId option when one
\* is given and "0" (the registry length before the append) otherwise.
C3_StorageId ==
    [][ \A n \in NodeIds, opt \in Opts :
          ( /\ AddStep
            /\ Last(invs').status = "ok"
            /\ \/ addCommissioningServer(n, opt, "ok")
               \/ addCommissioningController(n, opt, "ok") )
          => LET cc == SelectSeq(calls', LAMBDA c : c.inv = Len(invs') /\ c.op = "createContext")
             IN  /\ Len(cc) = 1
                 /\ cc[1].arg = IF opt # Undefined THEN opt ELSE "0"
                 /\ opt = Undefined => Len(nodes) = 0 ]_vars

\* A node was registered without uniqueNodeId and its context was created under "0"
C3_Witness ==
    \E k \in 1..Len(invs) :
        /\ IsAdd(invs[k]) /\ invs[k].status = "ok"
        /\ Len(CallsBy(k, "createContext")) = 1
        /\ CallsBy(k, "createContext")[1].arg = "0"

\* C4: within one start(), advertise on a node comes after setMdnsBroadcaster
\* and setMdnsScanner on that node, connect comes after setMdnsScanner, and
\* neither is ever called on a node whose deferred flag is set.
C4_InjectBeforeDefaultAction ==
    \A c \in 1..Len(calls) :
        calls[c].op \in {"advertise", "connect"}
        => LET k == calls[c].inv
               n == calls[c].node
           IN  /\ invs[k].op = "start"
               /\ ~Deferred(n)
               /\ FirstPos(k, "setMdnsScanner", n) \in 1..(c - 1)
               /\ calls[c].op = "advertise" => FirstPos(k, "setMdnsBroadcaster", n) \in 1..(c - 1)

\* A start() ran to its end and advertised a node after both injections
C4_Witness ==
    \E c \in 1..Len(calls) :
        /\ calls[c].op = "advertise" /\ calls[c].res = "ok"
        /\ invs[calls[c].inv].status = "ok"
        /\ FirstPos(calls[c].inv, "setMdnsBroadcaster", calls[c].node) > 0

\* A start() ran to its end on a deferred node, which got its injections
C4_WitnessDeferred ==
    \E k \in 1..Len(invs) :
        /\ invs[k].op = "start" /\ invs[k].status = "ok"
        /\ nodes # <<>> /\ Deferred(nodes[1])
        /\ FirstPos(k, "setMdnsScanner", nodes[1]) > 0

\* close(), on completing, has called close once on each node of the registry,
\* in registry order, and has failed exactly when one of these calls failed.
\* The registry never holds two nodes, so no run has a node left to close
\* after a failed one.
CloseCallsEveryNode ==
    [][ \A k \in 1..Len(invs') :
          ( /\ invs'[k].op = "close" /\ invs'[k].status # "pending"
            /\ (k > Len(invs) \/ invs[k].status = "pending") )
          => LET cl == SelectSeq(calls', LAMBDA c : c.inv = k /\ c.op = "close")
             IN  /\ Len(cl) = Len(nodes')
                 /\ \A i \in 1..Len(cl) : cl[i].node = nodes'[i]
                 /\ invs'[k].status = "error" <=> \E i \in 1..Len(cl) : cl[i].res = "fail" ]_vars

\* C6: a registration that fails changes neither the registry nor any node's
\* storage context; one that succeeds appends the node as the last entry
\* and leaves it holding the context created by that call.
C6_AtomicRegistration ==
    [][ AddStep =>
          LET i == Last(invs')
              cc == SelectSeq(calls', LAMBDA c : c.inv = Len(invs') /\ c.op = "createContext")
          IN  /\ i.status # "ok" => (nodes' = nodes /\ storage' = storage)
              /\ i.status = "ok" =>
                   /\ nodes' = Append(nodes, i.node)
                   /\ Last(nodes') = i.node
                   /\ Len(cc) = 1 /\ storage'[i.node] = cc[1].arg
                   /\ \A m \in NodeIds \ {i.node} : storage'[m] = storage[m] ]_vars

\* A registration failed in setStorage after createContext had succeeded
C6_Witness ==
    \E k \in 1..Len(invs) :
        /\ IsAdd(invs[k]) /\ invs[k].status = "error"
        /\ Len(CallsBy(k, "setStorage")) = 1
        /\ CallsBy(k, "setStorage")[1].res = "fail"
        /\ storage[invs[k].node] = NoStorage
        /\ nodes = <<>>

\* C7: close() on an empty registry completes at once and successfully,
\* makes no collaborator call and leaves the registry empty; a registration
\* made after such closes is not refused, and succeeds when createContext
\* and setStorage do.
C7_CloseOnEmpty ==
    [][ /\ (close /\ nodes = <<>>)
           => /\ Last(invs').status = "ok"
              /\ calls' = calls
              /\ nodes' = <<>>
        /\ \A n \in NodeIds, opt \in Opts :
             ( /\ AddStep
               /\ nodes = <<>>
               /\ \E k \in 1..Len(invs) : invs[k].op = "close"
               /\ \/ addCommissioningServer(n, opt, "ok")
                  \/ addCommissioningController(n, opt, "ok") )
             => (Last(invs').status = "ok" /\ nodes' = <<n>>) ]_vars

\* close() ran twice on the empty registry and a registration then succeeded
C7_Witness ==
    /\ Len(invs) >= 3
    /\ invs[1].op = "close" /\ invs[1].status = "ok"
    /\ invs[2].op = "close" /\ invs[2].status = "ok"
    /\ IsAdd(invs[3]) /\ invs[3].status = "ok"
    /\ calls # <<>> /\ \A c \in 1..Len(calls) : calls[c].inv = 3
    /\ Len(nodes) = 1

\* C8: setMdnsBroadcaster and setMdnsScanner are each called at most once on
\* a node, and the broadcaster and the scanner are each constructed at most
\* once, whatever start() and close() calls are made.
C8_DiscoveryAssignedOnce ==
    /\ Len(CallsOp("MdnsBroadcaster.create")) <= 1
    /\ Len(CallsOp("MdnsScanner.create")) <= 1
    /\ \A n \in NodeIds :
         /\ Len(CallsOn("setMdnsBroadcaster", n)) <= 1
         /\ Len(CallsOn("setMdnsScanner", n)) <= 1

\* C9: a registered node had exactly one successful setStorage, made by the
\* registration that added it, and once a node is registered no operation
\* calls createContext or setStorage or changes a storage context.
C9_StorageAssignedOnce ==
    [][ /\ \A i \in 1..Len(nodes') :
             LET ok == SelectSeq(calls', LAMBDA c : c.op = "setStorage" /\ c.node = nodes'[i]
                                                     /\ c.res = "ok")
             IN  /\ Len(ok) = 1
                 /\ IsAdd(invs'[ok[1].inv]) /\ invs'[ok[1].inv].status = "ok"
                 /\ invs'[ok[1].inv].node = nodes'[i]
                 /\ storage'[nodes'[i]] = ok[1].arg
        /\ nodes # <<>> => (StorageCalls' = StorageCalls /\ storage' = storage) ]_vars

\* After the registration, a refused registration and a completed close()
\* both happened
C9_Witness ==
    /\ Len(nodes) = 1
    /\ Len(StorageCalls) = 2
    /\ \E k \in 1..Len(invs) : IsAdd(invs[k]) /\ invs[k].status = "capacity"
    /\ \E k \in 1..Len(invs) : invs[k].op = "close" /\ invs[k].status = "ok"
                                 /\ Len(CallsBy(k, "close")) = 1

\* C10: the registry only ever grows at its end, and a registration made
\* after a close() that closed a registered node has completed is refused
\* with the capacity error.
C10_CloseKeepsCapacity ==
    [][ /\ Len(nodes') >= Len(nodes)
        /\ SubSeq(nodes', 1, Len(nodes)) = nodes
        /\ ( /\ AddStep
             /\ \E k \in 1..Len(invs) : /\ invs[k].op = "close" /\ invs[k].status # "pending"
                                        /\ Len(CallsBy(k, "close")) > 0 )
           => (Last(invs').status = "capacity" /\ nodes' = nodes /\ Len(nodes) = 1) ]_vars

\* A node was registered, close() closed it, and a registration was then refused
C10_Witness ==
    \E j, k \in 1..Len(invs) :
        /\ j < k
        /\ invs[j].op = "close" /\ invs[j].status = "ok" /\ Len(CallsBy(j, "close")) = 1
        /\ IsAdd(invs[k]) /\ invs[k].status = "capacity"
        /\ Len(nodes) = 1

\* The discovery-service and default-action operations of start()
DiscoveryOps == {"MdnsBroadcaster.create", "MdnsScanner.create",
                 "setMdnsBroadcaster", "setMdnsScanner", "advertise", "connect"}

\* This step is a call of start()
StartStep == Len(invs') = Len(invs) + 1 /\ Last(invs').op = "start"

\* This step is a call of close()
CloseStep == Len(invs') = Len(invs) + 1 /\ Last(invs').op = "close"

\* Invocation k is new or suspended before this step and has ended with it
Completes(k) == /\ k <= Len(invs')
                /\ invs'[k].status # "pending"
                /\ (k > Len(invs) \/ invs[k].status = "pending")

\* The positions in cs of the calls made by invocation k
PosBy(cs, k) == {c \in 1..Len(cs) : cs[c].inv = k}

\* What invocation k called, in order: operation, node and argument
TraceIn(cs, k) ==
    LET t == SelectSeq(cs, LAMBDA c : c.inv = k)
    IN  [i \in 1..Len(t) |-> <<t[i].op, t[i].node, t[i].arg>>]

IsPrefix(a, b) == Len(a) <= Len(b) /\ \A i \in 1..Len(a) : a[i] = b[i]

\* C11: once close() has completed for a registered node, no step makes a
\* discovery-service injection into that node or calls its advertise /
\* connect.
C11_ClosedIsTerminal ==
    [][ \A k \in 1..Len(invs) :
          ( /\ invs[k].op = "close" /\ invs[k].status = "ok"
            /\ Len(CallsBy(k, "close")) > 0 )
          => \A c \in (Len(calls) + 1)..Len(calls') :
                ~ ( /\ calls'[c].op \in {"setMdnsBroadcaster", "setMdnsScanner", "advertise", "connect"}
                    /\ calls'[c].node = CallsBy(k, "close")[1].node ) ]_vars

\* C12: a start() whose awaited step fails ends with the error, the failed
\* call is the last call that invocation ever makes (no later step, no
\* retry), and a start() that ended with an error has a failed call.
C12_StartFailFast ==
    [][ \A k \in 1..Len(invs') :
          invs'[k].op = "start"
          => /\ \A c \in PosBy(calls', k) :
                   calls'[c].res = "fail"
                   => /\ invs'[k].status = "error"
                      /\ \A d \in PosBy(calls', k) : d <= c
                      /\ calls'[c].op \in {"MdnsBroadcaster.create", "MdnsScanner.create",
                                           "advertise", "connect"}
             /\ invs'[k].status = "error" => \E c \in PosBy(calls', k) : calls'[c].res = "fail"
             /\ (k <= Len(invs) /\ invs[k].status = "error")
                   => (invs'[k] = invs[k] /\ TraceIn(calls', k) = TraceIn(calls, k)) ]_vars

\* A start() failed at the construction of the broadcaster, made no call
\* after it, and a later invocation has run since
C12_Witness ==
    \E k \in 1..Len(invs) :
        /\ invs[k].op = "start" /\ invs[k].status = "error"
        /\ Len(TraceIn(calls, k)) = 1
        /\ Len(CallsBy(k, "MdnsBroadcaster.create")) = 1
        /\ CallsBy(k, "MdnsBroadcaster.create")[1].res = "fail"
        /\ Len(invs) > k

\* The calls start() makes for node n when nothing fails
ExpectedFor(n, iface) ==
    IF KindOf(n) = "CommissioningServer"
    THEN <<  <<"MdnsBroadcaster.create", 0, iface>>, <<"setMdnsBroadcaster", n, Undefined>>,
             <<"MdnsScanner.create", 0, Undefined>>, <<"setMdnsScanner", n, Undefined>> >>
         \o (IF Deferred(n) THEN <<>> ELSE << <<"advertise", n, Undefined>> >>)
    ELSE <<  <<"MdnsScanner.create", 0, Undefined>>, <<"setMdnsScanner", n, Undefined>> >>
         \o (IF Deferred(n) THEN <<>> ELSE << <<"connect", n, Undefined>> >>)

RECURSIVE ExpectedAll(_, _)
ExpectedAll(ns, iface) ==
    IF ns = <<>> THEN <<>> ELSE ExpectedFor(Head(ns), iface) \o ExpectedAll(Tail(ns), iface)

\* C13: the calls of a start() are, in order, for a server the broadcaster
\* construction with the constructor's mdnsAnnounceInterface, setMdnsBroadcaster,
\* the scanner construction, setMdnsScanner and then advertise; for a
\* controller the scanner construction, setMdnsScanner and then connect;
\* never a broadcaster or advertise for a controller, never connect for a
\* server.  A start() that succeeds has made all of them.
C13_StepsByVariant ==
    [][ \A k \in 1..Len(invs') :
          invs'[k].op = "start"
          => /\ IsPrefix(TraceIn(calls', k), ExpectedAll(nodes', mdnsAnnounceInterface'))
             /\ (Completes(k) /\ invs'[k].status = "ok")
                   => TraceIn(calls', k) = ExpectedAll(nodes', mdnsAnnounceInterface') ]_vars

\* A start() of a server ran to its end on a server constructed with an
\* announce interface
C13_Witness ==
    \E k \in 1..Len(invs) :
        /\ invs[k].op = "start" /\ invs[k].status = "ok"
        /\ mdnsAnnounceInterface = "eth0"
        /\ Len(TraceIn(calls, k)) = 5
        /\ TraceIn(calls, k)[1] = <<"MdnsBroadcaster.create", 0, "eth0">>

\* C14: a registration call, successful or not, only ever adds getPort,
\* createContext and setStorage calls to the calls made so far, and changes
\* no earlier call.
C14_RegistrationNoDiscovery ==
    [][ AddStep
        => /\ Len(calls') >= Len(calls)
           /\ SubSeq(calls', 1, Len(calls)) = calls
           /\ \A c \in (Len(calls) + 1)..Len(calls') :
                 /\ calls'[c].op \in {"getPort", "createContext", "setStorage"}
                 /\ calls'[c].op \notin DiscoveryOps \cup {"close"}
                 /\ calls'[c].inv = Len(invs') ]_vars

\* A registration succeeded and made its createContext and setStorage calls
C14_Witness ==
    \E k \in 1..Len(invs) :
        /\ IsAdd(invs[k]) /\ invs[k].status = "ok"
        /\ TraceIn(calls, k) = << <<"createContext", 0, "home">>, <<"setStorage", invs[k].node, "home">> >>

\* A start() that is suspended
StartPending(k) == k <= Len(invs) /\ invs[k].op = "start" /\ invs[k].status = "pending"

\* A start() that has ended
StartEnded(k) == k <= Len(invs) /\ invs[k].op = "start" /\ invs[k].status # "pending"

\* C15: when every awaited promise is eventually settled, a suspended
\* start() eventually ends; a start() has not ended while a call it awaits
\* is outstanding; and a start() that succeeded has seen the advertise /
\* connect of every non-deferred node it injected complete.
C15_StartTermination ==
    /\ [] ( \A c \in 1..Len(calls) :
              /\ calls[c].res = "pending" => invs[calls[c].inv].status = "pending"
              /\ ( /\ invs[calls[c].inv].op = "start" /\ invs[calls[c].inv].status = "ok"
                   /\ calls[c].op = "setMdnsScanner" /\ ~Deferred(calls[c].node) )
                 => \E d \in (c + 1)..Len(calls) :
                       /\ calls[d].inv = calls[c].inv
                       /\ calls[d].node = calls[c].node
                       /\ calls[d].op \in {"advertise", "connect"}
                       /\ calls[d].res = "ok" )
    /\ \A k \in 1..MaxInvocations : StartPending(k) ~> StartEnded(k)

\* A start() of a controller ended after its connect had completed
C15_Witness ==
    \E c \in 1..Len(calls) :
        /\ calls[c].op = "connect" /\ calls[c].res = "ok"
        /\ invs[calls[c].inv].op = "start" /\ invs[calls[c].inv].status = "ok"

\* C16: of the calls one invocation of start() or close() has made, only
\* the last can be outstanding: every call is made after all earlier calls
\* of that invocation have completed.
C16_OneOutstanding ==
    \A c, d \in 1..Len(calls) :
        (c < d /\ calls[c].inv = calls[d].inv) => calls[c].res # "pending"

\* A start() awaits the scanner after the broadcaster construction completed
C16_Witness ==
    \E c, d \in 1..Len(calls) :
        /\ c < d /\ calls[c].inv = calls[d].inv
        /\ calls[c].op = "MdnsBroadcaster.create" /\ calls[c].res = "ok"
        /\ calls[d].op = "MdnsScanner.create" /\ calls[d].res = "pending"

\* C17: start() on an empty registry completes at once and successfully,
\* makes no collaborator call and leaves the registry empty; a registration
\* made after it is not refused, and succeeds when createContext and
\* setStorage do.
C17_StartOnEmpty ==
    [][ /\ (StartStep /\ nodes = <<>>)
           => /\ Last(invs').status = "ok"
              /\ calls' = calls
              /\ nodes' = <<>>
        /\ (AddStep /\ nodes = <<>> /\ \E k \in 1..Len(invs) : invs[k].op = "start")
           => /\ Last(invs').status \in {"ok", "error"}
              /\ Last(invs').status = "ok" => nodes' = <<Last(invs').node>>
              /\ Last(invs').status = "error"
                    => \E c \in (Len(calls) + 1)..Len(calls') : calls'[c].res = "fail" ]_vars

\* start() ran on the empty registry and a registration then succeeded
C17_Witness ==
    /\ Len(invs) >= 2
    /\ invs[1].op = "start" /\ invs[1].status = "ok"
    /\ IsAdd(invs[2]) /\ invs[2].status = "ok"
    /\ PosBy(calls, 1) = {}
    /\ Len(nodes) = 1

\* C18: every close() called with a node registered calls that node's close
\* at once, whatever start() and close() calls came before.
C18_CloseIndependentOfStart ==
    [][ (CloseStep /\ nodes # <<>>)
        => /\ calls' = Append(calls, Call(Len(invs'), "close", nodes[1], Undefined, "pending"))
           /\ Last(invs').status = "pending" ]_vars

\* A node that was never started was closed by two close() calls
C18_Witness ==
    /\ nodes # <<>>
    /\ \A k \in 1..Len(invs) : invs[k].op # "start"
    /\ \E j, k \in 1..Len(invs) :
          /\ j < k
          /\ invs[j].op = "close" /\ invs[j].status = "ok"
          /\ invs[k].op = "close" /\ invs[k].status = "ok"
          /\ Len(CallsOn("close", nodes[1])) = 2

\* A node whose start() failed part-way was closed
C18_WitnessFailedStart ==
    \E j, k \in 1..Len(invs) :
        /\ j < k
        /\ invs[j].op = "start" /\ invs[j].status = "error"
        /\ invs[k].op = "close" /\ invs[k].status = "ok"
        /\ Len(CallsBy(k, "close")) = 1

\* Invocations j and k of start() overlapped: k made its first call before
\* j made its last
Overlap(j, k) ==
    /\ j < k
    /\ invs[j].op = "start" /\ invs[k].op = "start"
    /\ \E c \in PosBy(calls, j), d \in PosBy(calls, k) : d < c

\* C19: a start() called while another start() is suspended is not refused:
\* it makes its first call at once, and when two overlapping start() calls
\* have both succeeded the node has been injected by each of them and, unless
\* deferred, has had its default action called by each of them.
C19_OverlappingStarts ==
    [][ /\ ( /\ StartStep
             /\ \E j \in 1..Len(invs) : invs[j].op = "start" /\ invs[j].status = "pending" )
           => /\ Last(invs').status = "pending"
              /\ Len(calls') = Len(calls) + 1
              /\ Last(calls').inv = Len(invs')
        /\ \A j, k \in 1..Len(invs') :
             ( /\ j < k
               /\ invs'[j].op = "start" /\ invs'[j].status = "ok"
               /\ invs'[k].op = "start" /\ invs'[k].status = "ok"
               /\ \E c \in PosBy(calls', j), d \in PosBy(calls', k) : d < c )
             => \A i \in {j, k} :
                   /\ \E c \in PosBy(calls', i) : /\ calls'[c].op = "setMdnsScanner"
                                                  /\ calls'[c].node = nodes'[1]
                   /\ ~Deferred(nodes'[1])
                        => \E c \in PosBy(calls', i) : /\ calls'[c].op \in {"advertise", "connect"}
                                                       /\ calls'[c].node = nodes'[1]
                                                       /\ calls'[c].res = "ok" ]_vars

\* Two overlapping start() calls both succeeded on a node that is not
\* deferred, which was injected twice and had its default action called twice
C19_Witness ==
    \E j, k \in 1..Len(invs) :
        /\ Overlap(j, k)
        /\ invs[j].status = "ok" /\ invs[k].status = "ok"
        /\ ~Deferred(nodes[1])
        /\ Len(CallsOn("setMdnsScanner", nodes[1])) = 2
        /\ Len(CallsOn("advertise", nodes[1])) + Len(CallsOn("connect", nodes[1])) = 2

====
